---- MODULE Spec2Model ----
(***************************************************************************)
(* A model of downloader.py: the command-line entry point main(), the      *)
(* YouTubeDownloader class it drives, and the yt-dlp collaborator seen as  *)
(* a black box whose two calls (extract_info, download) either return or   *)
(* raise.  Python strings are sequences of characters (a multi-character   *)
(* literal of the source is kept as one element); an optional value is a   *)
(* tagged record, so that None, an int and a str stay distinct.            *)
(***************************************************************************)
EXTENDS Integers, Sequences, FiniteSets, TLC

VARIABLES
    args_urls,        \* args.urls: the positional URLs, in argument order
    args_file,        \* args.file: PyNone or the path of the URL list file
    args_quality,     \* args.quality
    args_format,      \* args.format: PyNone or a custom selector
    args_audio_only,  \* args.audio_only
    mkdir_ok,         \* file system: can the output directory be created?
    file_status,      \* file system: "ok", "missing" or "ioerror" for args.file
    file_lines,       \* file system: the lines of the URL list file
    pc,               \* where main() stands
    ydl_format,       \* downloader.ydl_opts['format'] (PyNone before __init__)
    height_path,      \* did __init__ take the branch that formats a height?
    phase,            \* which caller runs download_multiple_videos: "file"/"cli"
    urls,             \* download_multiple_videos: its urls parameter
    i,                \* download_multiple_videos: enumerate(urls, 1) index
    loc_results,      \* download_multiple_videos: its local results list
    title,            \* download_single_video: local title
    duration,         \* download_single_video: local duration
    results,          \* main: results
    calls,            \* the collaborator calls made so far, in order
    stdout,           \* the usage, file-error and summary lines printed
    uncaught,         \* the exception that left main(), "" when none
    exit_code         \* the process exit status, PyNone while running

vars == <<args_urls, args_file, args_quality, args_format, args_audio_only,
          mkdir_ok, file_status, file_lines, pc, ydl_format, height_path,
          phase, urls, i, loc_results, title, duration, results, calls,
          stdout, uncaught, exit_code>>

argv == <<args_urls, args_file, args_quality, args_format, args_audio_only>>
fsys == <<mkdir_ok, file_status, file_lines>>
loop == <<phase, urls, i, loc_results>>

---------------------------------------------------------------------------
(* Python values *)

PyNone == [t |-> "None"]
PyInt(n) == [t |-> "int", v |-> n]
PyStr(s) == [t |-> "str", v |-> s]

\* Python truthiness of an optional string: None and '' are false.
Truthy(x) == x # PyNone /\ x.v # <<>>

\* Characters str.strip() removes: the blank and the line terminator.
Whitespace == {" ", "\n"}

RECURSIVE lstrip(_, _)
lstrip(s, cs) ==
    IF s # <<>> /\ Head(s) \in cs THEN lstrip(Tail(s), cs) ELSE s

RECURSIVE rstrip(_, _)
rstrip(s, cs) ==
    IF s # <<>> /\ s[Len(s)] \in cs
    THEN rstrip(SubSeq(s, 1, Len(s) - 1), cs)
    ELSE s

strip(s) == lstrip(rstrip(s, Whitespace), Whitespace)

startswith(s, c) == s # <<>> /\ Head(s) = c

SeqUpTo(S, n) == UNION {[1..k -> S] : k \in 0..n}

---------------------------------------------------------------------------
(* Bounds and input sets *)

MaxUrls == 2
MaxFileLines == 2

UrlA == <<"a">>
UrlB == <<"b">>
Urls == {UrlA, UrlB}

BEST == <<"b", "e", "s", "t">>
WORST == <<"w", "o", "r", "s", "t">>
Q720p == <<"7", "2", "0", "p">>
Qabc == <<"a", "b", "c">>

\* --quality values: the documented ones, and strings with and without digits
\* and with and without the trailing unit.
Qualities ==
    {BEST, WORST, Q720p, <<"1", "0", "8", "0", "p">>, Qabc, <<"7", "2", "0">>,
     <<"p">>, <<>>, <<"7", "2", "0", "p", "p">>, <<"7", "p", "2">>}

CustomFormat == <<"bestvideo+bestaudio">>

\* Lines of a URL list file (without their terminator): empty, blank, a
\* comment, an indented comment, a URL, a URL with blanks around it.
LineSet ==
    {<<>>, <<" ">>, <<"#", "c">>, <<" ", "#", "c">>, <<"a">>,
     <<" ", "b", " ">>}

---------------------------------------------------------------------------
(* The collaborator: yt_dlp.YoutubeDL *)

Unknown == <<"Unknown">>
TitleT == <<"T">>

\* info dicts extract_info may return: keys absent, present but None, present.
Infos ==
    {<<>>,
     [duration |-> PyInt(59)],
     [title |-> PyNone, duration |-> PyNone],
     [title |-> PyStr(TitleT), duration |-> PyInt(3725)]}

\* dict.get(key, default)
get(d, key, default) == IF key \in DOMAIN d THEN d[key] ELSE default

ProbeMsg == <<"extract failed">>
FetchMsg == <<"download failed">>
\* str(e) of the AttributeError raised by None.get
NoneGetMsg == <<"'NoneType' object has no attribute 'get'">>

\* extract_info(url, download=False) raises, returns None (what 'ignoreerrors'
\* makes it do on an extraction error), or returns an info dict.
ProbeOutcomes ==
    {[kind |-> "raise", msg |-> ProbeMsg], [kind |-> "none"]}
        \cup {[kind |-> "info", info |-> d] : d \in Infos}

\* download([url]) raises or returns.
FetchOutcomes == {[kind |-> "raise", msg |-> FetchMsg], [kind |-> "ok"]}

---------------------------------------------------------------------------
(* YouTubeDownloader.__init__ *)

HeightSelector(h) ==
    <<"best[height<=">> \o h \o <<"][ext=mp4]/best[height<=">> \o h \o <<"]">>

takes_height_branch(fmt, audio, quality) ==
    ~Truthy(fmt) /\ ~audio /\ quality # BEST /\ quality # WORST

\* format_for with the audio-only test made before the custom selector's.
format_for_audio_first(fmt, audio, quality) ==
    IF audio THEN <<"bestaudio/best">>
    ELSE IF Truthy(fmt) THEN fmt.v
    ELSE IF quality = BEST
         THEN <<"bestvideo[ext=mp4]+bestaudio[ext=m4a]/best[ext=mp4]/best">>
    ELSE IF quality = WORST THEN <<"worst[ext=mp4]/worst">>
    ELSE HeightSelector(rstrip(quality, {"p"}))

format_for(fmt, audio, quality) ==
    IF Truthy(fmt) THEN fmt.v
    ELSE IF audio THEN <<"bestaudio/best">>
    ELSE IF quality = BEST
         THEN <<"bestvideo[ext=mp4]+bestaudio[ext=m4a]/best[ext=mp4]/best">>
    ELSE IF quality = WORST THEN <<"worst[ext=mp4]/worst">>
    ELSE HeightSelector(rstrip(quality, {"p"}))

\* main() builds the downloader: mkdir of the download path, then the options.
\* A failing mkdir raises out of main().
Construct ==
    /\ pc = "construct"
    /\ IF mkdir_ok
       THEN /\ ydl_format' =
                PyStr(format_for(args_format, args_audio_only, args_quality))
            /\ height_path' =
                takes_height_branch(args_format, args_audio_only, args_quality)
            /\ pc' = "from_file"
            /\ UNCHANGED <<uncaught, exit_code>>
       ELSE /\ pc' = "aborted"
            /\ uncaught' = "OSError"
            /\ exit_code' = PyInt(1)
            /\ UNCHANGED <<ydl_format, height_path>>
    /\ UNCHANGED <<argv, fsys, loop, title, duration, results, calls, stdout>>

---------------------------------------------------------------------------
(* download_from_file, download_multiple_videos, download_single_video *)

\* Iterating a text file yields each line with its terminator.
ReadLines(ls) == [k \in 1..Len(ls) |-> ls[k] \o <<"\n">>]

keeps_line(line) == strip(line) # <<>> /\ ~startswith(line, "#")

RECURSIVE url_list(_)
url_list(ls) ==
    IF ls = <<>> THEN <<>>
    ELSE (IF keeps_line(Head(ls)) THEN <<strip(Head(ls))>> ELSE <<>>)
             \o url_list(Tail(ls))

success_result(url, t, d) ==
    [url |-> url, title |-> t, status |-> "success", duration |-> d,
     error |-> PyNone]

error_result(url, msg) ==
    [url |-> url, title |-> PyStr(Unknown), status |-> "error",
     duration |-> PyInt(0), error |-> PyStr(msg)]

\* One entry of the call log: the call, its outcome, and how many results had
\* been appended when it was made.
call(op, url, out) ==
    [op |-> op, url |-> url, out |-> out,
     nres |-> Len(results) + Len(loc_results)]

\* open() and the iteration over the file succeed only for a readable file;
\* FileNotFoundError and every other Exception lead to the same return [].
\* file_readable with only FileNotFoundError handled before the dispatch.
file_readable_unless_missing == file_status # "missing"

file_readable == file_status = "ok"

\* main: download from file if provided.
MainFile ==
    /\ pc = "from_file"
    /\ IF ~Truthy(args_file)
       THEN /\ pc' = "from_cli"
            /\ UNCHANGED <<loop, stdout>>
       ELSE IF ~file_readable
       THEN /\ stdout' = Append(stdout, [k |-> "file_error", why |-> file_status])
            /\ pc' = "from_cli"
            /\ UNCHANGED loop
       ELSE /\ urls' = url_list(ReadLines(file_lines))
            /\ i' = 1
            /\ loc_results' = <<>>
            /\ phase' = "file"
            /\ pc' = "loop"
            /\ UNCHANGED stdout
    /\ UNCHANGED <<argv, fsys, ydl_format, height_path, title, duration,
                   results, calls, uncaught, exit_code>>

\* main: download from command line URLs.
MainCli ==
    /\ pc = "from_cli"
    /\ IF args_urls # <<>>
       THEN /\ urls' = args_urls
            /\ i' = 1
            /\ loc_results' = <<>>
            /\ phase' = "cli"
            /\ pc' = "loop"
       ELSE /\ pc' = "check_empty"
            /\ UNCHANGED loop
    /\ UNCHANGED <<argv, fsys, ydl_format, height_path, title, duration,
                   results, calls, stdout, uncaught, exit_code>>

\* on_exception retrying the URL instead of recording the failure.
on_exception_retry(msg) ==
    /\ pc' = "loop"
    /\ title' = PyNone
    /\ duration' = PyNone
    /\ UNCHANGED <<i, loc_results>>

\* What the handler of download_single_video does with an exception.
on_exception(msg) ==
    /\ loc_results' = Append(loc_results, error_result(urls[i], msg))
    /\ i' = i + 1
    /\ title' = PyNone
    /\ duration' = PyNone
    /\ pc' = "loop"

\* download_single_video up to the return of extract_info.
Probe ==
    /\ pc = "loop"
    /\ i <= Len(urls)
    /\ \E out \in ProbeOutcomes :
        /\ calls' = Append(calls, call("extract_info", urls[i], out))
        /\ IF out.kind = "raise" THEN on_exception(out.msg)
           ELSE IF out.kind = "none" THEN on_exception(NoneGetMsg)
           ELSE /\ title' = get(out.info, "title", PyStr(Unknown))
                /\ duration' = get(out.info, "duration", PyInt(0))
                /\ pc' = "download"
                /\ UNCHANGED <<i, loc_results>>
    /\ UNCHANGED <<argv, fsys, ydl_format, height_path, phase, urls, results,
                   stdout, uncaught, exit_code>>

\* download_single_video from the call of download to its return, and the
\* append of download_multiple_videos.
Fetch ==
    /\ pc = "download"
    /\ \E out \in FetchOutcomes :
        /\ calls' = Append(calls, call("download", urls[i], out))
        /\ IF out.kind = "raise" THEN on_exception(out.msg)
           ELSE /\ loc_results' =
                    Append(loc_results, success_result(urls[i], title, duration))
                /\ i' = i + 1
                /\ title' = PyNone
                /\ duration' = PyNone
                /\ pc' = "loop"
    /\ UNCHANGED <<argv, fsys, ydl_format, height_path, phase, urls, results,
                   stdout, uncaught, exit_code>>

\* extend putting the new results in front.
extend_in_front(rs, more) == more \o rs

\* list.extend
extend(rs, more) == rs \o more

\* download_multiple_videos returns; main extends results with what it got.
LoopReturn ==
    /\ pc = "loop"
    /\ i > Len(urls)
    /\ results' = extend(results, loc_results)
    /\ pc' = IF phase = "file" THEN "from_cli" ELSE "check_empty"
    /\ urls' = <<>>
    /\ i' = 1
    /\ loc_results' = <<>>
    /\ UNCHANGED <<argv, fsys, ydl_format, height_path, phase, title, duration,
                   calls, stdout, uncaught, exit_code>>

---------------------------------------------------------------------------
(* main: usage, print_summary *)

\* no_urls_provided with the test of args.urls inverted.
no_urls_provided_inverted == ~Truthy(args_file) /\ args_urls # <<>>

no_urls_provided == ~Truthy(args_file) /\ args_urls = <<>>

NoUrls ==
    /\ pc = "check_empty"
    /\ no_urls_provided
    /\ stdout' = Append(stdout, [k |-> "usage"])
    /\ pc' = "done"
    /\ exit_code' = PyInt(0)
    /\ UNCHANGED <<argv, fsys, ydl_format, height_path, loop, title, duration,
                   results, calls, uncaught>>

with_status(rs, st) == SelectSeq(rs, LAMBDA r : r.status = st)

\* Python's sum() over ints; adding None to an int raises TypeError.
summable(rs) == \A k \in 1..Len(rs) : rs[k].duration.t = "int"

RECURSIVE sum_durations(_)
sum_durations(rs) ==
    IF rs = <<>> THEN 0 ELSE Head(rs).duration.v + sum_durations(Tail(rs))

count_lines(rs) ==
    <<[k |-> "total", n |-> Len(rs)],
      [k |-> "successful", n |-> Len(with_status(rs, "success"))],
      [k |-> "failed", n |-> Len(with_status(rs, "error"))]>>

duration_lines(rs) ==
    LET successful == with_status(rs, "success")
        total_duration == sum_durations(successful)
    IN  IF successful # <<>>
        THEN <<[k |-> "duration", h |-> total_duration \div 3600,
                m |-> (total_duration % 3600) \div 60,
                s |-> total_duration % 60]>>
        ELSE <<>>

failed_lines(rs) ==
    LET failed == with_status(rs, "error")
    IN  IF failed # <<>>
        THEN <<[k |-> "failed_header"]>> \o
             [j \in 1..Len(failed) |->
                 [k |-> "failed_item", url |-> failed[j].url,
                  error |-> failed[j].error]]
        ELSE <<>>

\* main: print_summary(results), then the normal return of main().
PrintSummary ==
    /\ pc = "check_empty"
    /\ ~no_urls_provided
    /\ IF summable(with_status(results, "success"))
       THEN /\ stdout' = stdout \o count_lines(results)
                            \o duration_lines(results) \o failed_lines(results)
            /\ pc' = "done"
            /\ exit_code' = PyInt(0)
            /\ UNCHANGED uncaught
       ELSE /\ stdout' = stdout \o count_lines(results)
            /\ pc' = "aborted"
            /\ uncaught' = "TypeError"
            /\ exit_code' = PyInt(1)
    /\ UNCHANGED <<argv, fsys, ydl_format, height_path, loop, title, duration,
                   results>>
    /\ UNCHANGED calls

---------------------------------------------------------------------------
(* Specifications *)

NoFile == [arg |-> PyNone, status |-> "missing", lines |-> <<>>]
File(st, ls) == [arg |-> PyStr(<<"urls.txt">>), status |-> st, lines |-> ls]

InitFrom(Q, F, A, M, FILES, CLI) ==
    /\ args_quality \in Q
    /\ args_format \in F
    /\ args_audio_only \in A
    /\ mkdir_ok \in M
    /\ \E f \in FILES :
        /\ args_file = f.arg
        /\ file_status = f.status
        /\ file_lines = f.lines
    /\ args_urls \in CLI
    /\ pc = "construct"
    /\ ydl_format = PyNone
    /\ height_path = FALSE
    /\ phase = "file"
    /\ urls = <<>>
    /\ i = 1
    /\ loc_results = <<>>
    /\ title = PyNone
    /\ duration = PyNone
    /\ results = <<>>
    /\ calls = <<>>
    /\ stdout = <<>>
    /\ uncaught = ""
    /\ exit_code = PyNone

Next ==
    \/ Construct
    \/ MainFile
    \/ MainCli
    \/ Probe
    \/ Fetch
    \/ LoopReturn
    \/ NoUrls
    \/ PrintSummary

\* Runs of the dispatch loop: up to MaxUrls command-line URLs (duplicates
\* allowed), with no list file, an unreadable one, or a short readable one.
Init ==
    InitFrom({BEST}, {PyNone}, {FALSE}, BOOLEAN,
             {NoFile, File("missing", <<>>), File("ok", <<UrlA>>),
              File("ok", <<<<"#", "c">>, UrlB>>)},
             SeqUpTo(Urls, MaxUrls))

Spec == Init /\ [][Next]_vars

\* Runs over every list file of up to MaxFileLines lines, readable or not.
InitFile ==
    \/ InitFrom({BEST}, {PyNone}, {FALSE}, {TRUE},
                {File("ok", ls) : ls \in SeqUpTo(LineSet, MaxFileLines)},
                {<<>>})
    \/ InitFrom({BEST}, {PyNone}, {FALSE}, {TRUE},
                {File(st, ls) : st \in {"missing", "ioerror"},
                                ls \in SeqUpTo(LineSet, MaxFileLines)}
                    \cup {NoFile},
                {<<>>, <<UrlB>>, <<UrlB, UrlA>>, <<UrlA, UrlA>>})

SpecFile == InitFile /\ [][Next]_vars

\* Runs over every configuration.
InitConfig ==
    InitFrom(Qualities, {PyNone, PyStr(CustomFormat)}, BOOLEAN, BOOLEAN,
             {NoFile, File("ok", <<UrlA>>)}, {<<>>, <<UrlB>>})

SpecConfig == InitConfig /\ [][Next]_vars

---------------------------------------------------------------------------
(* Properties *)

Probes == SelectSeq(calls, LAMBDA c : c.op = "extract_info")

ProbesUpTo(j) == Cardinality({m \in 1..j : calls[m].op = "extract_info"})

UrlsOf(rs) == [k \in 1..Len(rs) |-> rs[k].url]

IsPrefix(a, b) == Len(a) <= Len(b) /\ a = SubSeq(b, 1, Len(a))

Printed(line) == \E k \in 1..Len(stdout) : stdout[k] = line

SummaryLines == SelectSeq(stdout, LAMBDA l : l.k \notin {"usage", "file_error"})

FailedItems == SelectSeq(stdout, LAMBDA l : l.k = "failed_item")

\* print_summary has been entered.
SummaryCalled == SummaryLines # <<>>

\* The URLs download_from_file hands to the dispatch loop: those of a list
\* file that was given and could be read.
FileUrls ==
    IF Truthy(args_file) /\ file_status = "ok"
    THEN url_list(ReadLines(file_lines))
    ELSE <<>>

\* Every URL occurrence of the run, in the order main() consumes the sources.
Supplied == FileUrls \o args_urls

Digits == {"0", "1", "2", "3", "4", "5", "6", "7", "8", "9"}

IsIntStr(s) == s # <<>> /\ \A k \in 1..Len(s) : s[k] \in Digits

\* C1: the result sequence handed to print_summary has exactly one record per
\* supplied URL occurrence: its url fields are the file-sourced URLs in file
\* order followed by the command-line URLs in argument order, so its length
\* is the number of supplied URLs.
C1_OneResultPerUrl ==
    (pc = "check_empty" \/ SummaryCalled) =>
        /\ Len(results) = Len(FileUrls) + Len(args_urls)
        /\ UrlsOf(results) = Supplied

\* A finished run with a file URL and a duplicated command-line URL, a failure
\* first and a success last.
C1_Witness ==
    /\ SummaryCalled
    /\ Len(FileUrls) = 1
    /\ Len(args_urls) = 2
    /\ args_urls[1] = args_urls[2]
    /\ Len(results) = 3
    /\ results[1].status = "error"
    /\ results[3].status = "success"

\* C2: in a finished run where the collaborator raised for exactly one URL and
\* succeeded for all others, every URL was dispatched and the summary reports
\* one failure, listing that URL with the collaborator's message, and n-1
\* successes.
C2_OneFailureIsolated ==
    LET Raised == {j \in 1..Len(calls) : calls[j].out.kind = "raise"}
        Nones == {j \in 1..Len(calls) : calls[j].out.kind = "none"}
    IN  (pc \in {"done", "aborted"} /\ Cardinality(Raised) = 1 /\ Nones = {}) =>
            LET j == CHOOSE x \in Raised : TRUE
                n == Len(Supplied)
            IN  /\ Len(Probes) = n
                /\ Printed([k |-> "successful", n |-> n - 1])
                /\ Printed([k |-> "failed", n |-> 1])
                /\ FailedItems =
                       <<[k |-> "failed_item", url |-> calls[j].url,
                          error |-> PyStr(calls[j].out.msg)]>>

\* C3: with no custom selector and audio-only off, a quality that is not
\* 'best' or 'worst' and does not strip to an integer makes the construction
\* fail: the run never gets past it, no collaborator call is made and no
\* format selector is produced.
C3_InvalidQualityAborts ==
    (/\ ~Truthy(args_format)
     /\ ~args_audio_only
     /\ args_quality \notin {BEST, WORST}
     /\ ~IsIntStr(rstrip(args_quality, {"p"}))) =>
        /\ pc \in {"construct", "aborted"}
        /\ calls = <<>>
        /\ ydl_format = PyNone

\* C4: every record has a string title and an integer duration >= 0; a URL
\* whose probe returned metadata and whose fetch returned is a success with
\* the probed title ('Unknown' when there is none) and duration (0 when there
\* is none); the summary's duration sum never fails.
C4_SuccessRecordTyped ==
    LET rs == results \o loc_results
        probeAt(n) ==
            CHOOSE j \in 1..Len(calls) :
                calls[j].op = "extract_info" /\ ProbesUpTo(j) = n
        available(d, key) == key \in DOMAIN d /\ d[key] # PyNone
    IN  /\ \A n \in 1..Len(rs) :
            /\ rs[n].title.t = "str"
            /\ rs[n].duration.t = "int"
            /\ rs[n].duration.v >= 0
            /\ LET j == probeAt(n)
               IN  (/\ calls[j].out.kind = "info"
                    /\ calls[j + 1].out.kind = "ok") =>
                       LET d == calls[j].out.info
                       IN  /\ rs[n].status = "success"
                           /\ rs[n].title =
                                  IF available(d, "title") THEN d.title
                                  ELSE PyStr(Unknown)
                           /\ rs[n].duration =
                                  IF available(d, "duration") THEN d.duration
                                  ELSE PyInt(0)
        /\ uncaught # "TypeError"

\* C5: once print_summary has run, it has printed the length of the result
\* sequence, the number of successes and of failures, the failures in order
\* with url and message (nothing when there are none), and, when there is a
\* success, the sum of the successes' durations as hours, minutes, seconds.
C5_SummaryMatchesResults ==
    LET succ == {k \in 1..Len(results) : results[k].status = "success"}
        failed == SelectSeq(results, LAMBDA r : r.status = "error")
        total[S \in SUBSET succ] ==
            IF S = {} THEN 0
            ELSE LET k == CHOOSE x \in S : TRUE
                 IN  results[k].duration.v + total[S \ {k}]
    IN  (pc \in {"done", "aborted"} /\ uncaught # "OSError"
            /\ ~no_urls_provided) =>
            /\ Printed([k |-> "total", n |-> Len(results)])
            /\ Printed([k |-> "successful", n |-> Cardinality(succ)])
            /\ Printed([k |-> "failed", n |-> Len(failed)])
            /\ Cardinality(succ) + Len(failed) = Len(results)
            /\ FailedItems =
                   [j \in 1..Len(failed) |->
                       [k |-> "failed_item", url |-> failed[j].url,
                        error |-> failed[j].error]]
            /\ Printed([k |-> "failed_header"]) <=> failed # <<>>
            /\ succ # {} =>
                   /\ \A k \in succ : results[k].duration.t = "int"
                   /\ Printed([k |-> "duration",
                               h |-> total[succ] \div 3600,
                               m |-> (total[succ] % 3600) \div 60,
                               s |-> total[succ] % 60])

\* What C6 says of a run with no positional URL and no --file.
UsageOnly ==
    /\ calls = <<>>
    /\ ~SummaryCalled
    /\ pc \in {"done", "aborted"} =>
           /\ pc = "done"
           /\ stdout = <<[k |-> "usage"]>>
           /\ exit_code = PyInt(0)

\* C6 as stated: a run with no positional URL and no --file prints the usage,
\* calls neither probe nor fetch, prints no summary and exits with status 0.
C6_Original == (args_urls = <<>> /\ args_file = PyNone) => UsageOnly

\* C6, amended: the same, when the output directory exists or can be created.
C6_UsageWhenNoUrls ==
    (args_urls = <<>> /\ args_file = PyNone /\ mkdir_ok) => UsageOnly

\* A finished run with no URLs and a quality that is no height.
C6_Witness ==
    /\ args_urls = <<>>
    /\ args_file = PyNone
    /\ args_quality = Qabc
    /\ pc = "done"
    /\ stdout = <<[k |-> "usage"]>>

\* C7: once the read of the list file has failed (missing or unreadable), the
\* failure is logged, nothing of that file is ever dispatched or recorded, the
\* run goes on, every command-line URL is dispatched in order and gets its
\* record, and print_summary is then entered with exactly those records.
C7_FileFailureContributesNothing ==
    (/\ Truthy(args_file)
     /\ file_status # "ok"
     /\ pc \notin {"construct", "from_file"}
     /\ uncaught # "OSError") =>
        /\ Printed([k |-> "file_error", why |-> file_status])
        /\ IsPrefix(UrlsOf(Probes), args_urls)
        /\ IsPrefix(UrlsOf(results \o loc_results), args_urls)
        /\ (pc = "check_empty" \/ SummaryCalled) =>
               /\ UrlsOf(Probes) = args_urls
               /\ UrlsOf(results) = args_urls
        /\ pc = "check_empty" => ENABLED PrintSummary
        /\ pc \in {"done", "aborted"} =>
               /\ SummaryCalled
               /\ Printed([k |-> "total", n |-> Len(args_urls)])
               /\ ~Printed([k |-> "usage"])

\* A finished run whose list file holds URLs but cannot be read, with two
\* command-line URLs.
C7_Witness ==
    /\ file_status = "ioerror"
    /\ url_list(ReadLines(file_lines)) # <<>>
    /\ args_urls = <<UrlB, UrlA>>
    /\ pc = "done"
    /\ UrlsOf(results) = args_urls

\* A line of the list file is a comment when, blanks aside, it starts with '#'.
IsComment(line) == startswith(strip(line), "#")

RECURSIVE CandidateUrls(_)
CandidateUrls(ls) ==
    IF ls = <<>> THEN <<>>
    ELSE (IF strip(Head(ls)) = <<>> \/ IsComment(Head(ls)) THEN <<>>
          ELSE <<strip(Head(ls))>>) \o CandidateUrls(Tail(ls))

\* C8: the URLs dispatched from a list file are exactly its lines that are
\* neither blank nor comments, in file order; no blank and no comment is ever
\* given to the collaborator as a URL.
C8_FileUrlsExact ==
    /\ (phase = "file" /\ pc \in {"loop", "download"}) =>
           urls = CandidateUrls(file_lines)
    /\ \A j \in 1..Len(calls) :
           calls[j].url # <<>> /\ ~startswith(calls[j].url, "#")

\* The parts of C9 that speak of the configuration that was built.
SelectorAsAsked ==
    /\ (Truthy(args_format) /\ ydl_format # PyNone) => ydl_format = args_format
    /\ (Truthy(args_format) \/ args_quality \in {BEST, WORST}) => ~height_path
    /\ (/\ args_quality = Q720p
        /\ ~Truthy(args_format)
        /\ ~args_audio_only
        /\ ydl_format # PyNone) =>
           ydl_format =
               PyStr(<<"best[height<=", "7", "2", "0",
                       "][ext=mp4]/best[height<=", "7", "2", "0", "]">>)

\* C9 as stated: a custom selector is the resolved selector whatever quality
\* and audio-only are; with a custom selector or quality best/worst the
\* construction succeeds and never formats the quality as a height; "720p"
\* alone bounds the height at 720.
C9_Original ==
    pc # "construct" =>
        /\ SelectorAsAsked
        /\ (Truthy(args_format) \/ args_quality \in {BEST, WORST}) =>
               ydl_format # PyNone

\* C9, amended: the same, the construction succeeding whenever the output
\* directory exists or can be created.
C9_FormatOverridesQuality ==
    pc # "construct" =>
        /\ SelectorAsAsked
        /\ ((Truthy(args_format) \/ args_quality \in {BEST, WORST})
                /\ mkdir_ok) =>
               (ydl_format # PyNone /\ uncaught # "OSError")

\* A built configuration with a custom selector, audio-only on and a quality
\* that is no height.
C9_Witness ==
    /\ pc = "from_file"
    /\ args_format = PyStr(CustomFormat)
    /\ args_audio_only
    /\ args_quality = Qabc
    /\ ydl_format = args_format

\* C10: the n-th probe is for the n-th supplied URL occurrence and is made
\* when n-1 results have been appended; a fetch directly follows the probe of
\* the same URL, which returned metadata; by the time the results are handed
\* over, every supplied URL occurrence has been probed exactly once.
C10_SequentialUnretried ==
    LET probes == Probes
        supplied == Supplied
    IN  /\ Len(probes) <= Len(supplied)
        /\ \A n \in 1..Len(probes) :
               /\ probes[n].url = supplied[n]
               /\ probes[n].nres = n - 1
        /\ \A j \in 1..Len(calls) :
               calls[j].op = "download" =>
                   /\ j > 1
                   /\ calls[j - 1].op = "extract_info"
                   /\ calls[j - 1].out.kind = "info"
                   /\ calls[j - 1].url = calls[j].url
                   /\ calls[j - 1].nres = calls[j].nres
        /\ Len(results) + Len(loc_results) \in {Len(probes) - 1, Len(probes)}
        /\ (pc = "check_empty" \/ SummaryCalled) =>
               Len(probes) = Len(supplied)

\* A finished run of three URLs: a probe failure, then a fetch failure, then
\* a success.
C10_Witness ==
    /\ pc = "done"
    /\ Len(calls) = 5
    /\ calls[1].out.kind = "raise"
    /\ calls[3].op = "download"
    /\ calls[3].out.kind = "raise"
    /\ calls[5].out.kind = "ok"
    /\ Len(results) = 3

====
